---- MODULE Spec2Model ----
(***************************************************************************)
(* Match / introduction lifecycle and messaging gate of the co-founder     *)
(* matching backend (backend/app/api/v1/matches.py, profiles.py,           *)
(* messages.py, deps.py).  Every handler is one atomic action: it reads    *)
(* the Match and Message tables, either raises (the tables stay as they    *)
(* are and only the response changes) or commits its writes.               *)
(*                                                                         *)
(* Time is counted in days.  A nullable timestamp column is a sequence:    *)
(* <<>> is NULL and <<t>> is the time t.  Rows are never deleted.  Columns  *)
(* no handler below branches on (scores, content, created_at/updated_at of *)
(* a Match) are left out.                                                  *)
(*                                                                         *)
(* The requests the server is handling at the same time are kept in        *)
(* inflight, one per worker; only the specifications that split a handler  *)
(* at its commits use it.  The Event and UserEventRSVP tables (events.py)  *)
(* are events and rsvps; only the RSVP specification changes them.         *)
(***************************************************************************)
EXTENDS Integers, Sequences, FiniteSets, TLC

VARIABLES users, matches, messages, now, response, inflight, events, rsvps

vars == <<users, matches, messages, now, response, inflight, events, rsvps>>

-----------------------------------------------------------------------------
(* Bounds of the model *)

NUsers == 24
MaxMatches == 3
MaxMessages == 2
MaxTimeQuota == 8
MaxTimeCap == 2
MaxInbox == 1
MaxTimeClock == 2
MaxWorkers == 2
MaxCapacity == 2
MaxEvents == 1

(* Program constants *)

WeeklyQuota == 20
DailyCap == 50
Week == 7
Day == 1

-----------------------------------------------------------------------------
(* Data *)

(* The User table: the ids 1..NUsers exist.  A user record is created with
   is_active = True and is_banned = False (users.py), so the table is kept
   as the set of the users that are not active and the set of those banned,
   and, for role_intent, the set of the founders and the set of the
   cofounders (every other user is an early_employee or has no role). *)
Users == 1..NUsers
Crowd == {u \in Users : u > 3}
(* A profile id no user has, and a match id no row has *)
NoUser == NUsers + 1
NoMatch == <<NoUser, NoUser, NoUser>>
None == NoMatch

Null == <<>>
At(t) == <<t>>
IsSet(ts) == ts # Null

Match(user_id, target_user_id, status, requested, accepted) ==
    [user_id |-> user_id, target_user_id |-> target_user_id, status |-> status,
     intro_requested_at |-> requested, intro_accepted_at |-> accepted]

Message(match_id, sender_id, recipient_id, message_type) ==
    [match_id |-> match_id, sender_id |-> sender_id, recipient_id |-> recipient_id,
     message_type |-> message_type, is_read |-> FALSE, read_at |-> Null,
     created_at |-> now]

(* What the caller gets back: the handler that answered, the kind of the
   answer ("ok" or the error kind of the HTTPException), the auto_connected
   field of the invite handler's body, and the ids of the profiles a
   listing handler returns. *)
Response(op, outcome, auto_connected) ==
    [op |-> op, outcome |-> outcome, auto_connected |-> auto_connected,
     profiles |-> {}]

(* raise HTTPException(...): nothing of the session is committed *)
Raise(op, outcome) ==
    /\ response' = Response(op, outcome, FALSE)
    /\ UNCHANGED <<events, rsvps, inflight, users, matches, messages, now>>

(* A request a worker is handling: what it read, and how far it got *)
Workers == 1..MaxWorkers

Request(op, current_user, profile_id, em, rm, pc) ==
    [op |-> op, current_user |-> current_user, profile_id |-> profile_id,
     existing_match |-> em, reciprocal_match |-> rm, pc |-> pc]

Idle == Request("none", NoUser, NoUser, None, None, "idle")

(* The Event table and the UserEventRSVP table, the latter keyed by its
   unique constraint (user_id, event_id).  max_attendees is 0 for an event
   without a limit (None in the code, tested by truth value). *)
Event(max_attendees) ==
    [max_attendees |-> max_attendees, current_attendees |-> 0, is_active |-> TRUE]

NoEvents == <<>>

(* The primary key of a new Match row (uuid4 in the code): any value no
   other row has.  Here: the pair and the number of the row for that pair. *)
new_id(a, b) ==
    <<a, b, Cardinality({i \in DOMAIN matches : i[1] = a /\ i[2] = b}) + 1>>

(* db.add(row); db.commit() *)
db_add(table, id, row) == table @@ (id :> row)

-----------------------------------------------------------------------------
(* Identity dependency: a banned or inactive caller is rejected with 403 *)

(* Mutant: the dependency rejects only the inactive caller. *)
get_current_user_ban_ignored(u) ==
    /\ u \in Users
    /\ u \notin users.is_inactive

get_current_user(u) ==
    /\ u \in Users
    /\ u \notin users.is_banned
    /\ u \notin users.is_inactive

(* db.query(User).filter(User.id == id, User.is_active).first() *)
active_target(id) == id \in Users /\ id \notin users.is_inactive

(* Query(...).first(): None on an empty result, else some row of it *)
First(S) == IF S = {} THEN {None} ELSE S

-----------------------------------------------------------------------------
(* Match lifecycle manager *)

(* Mutant: the lookup of the actor's row only finds rows still saved. *)
existing_match_saved_only(a, b) ==
    {i \in DOMAIN matches :
        /\ matches[i].user_id = a
        /\ matches[i].target_user_id = b
        /\ matches[i].status = "saved"}

existing_match(a, b) ==
    {i \in DOMAIN matches :
        matches[i].user_id = a /\ matches[i].target_user_id = b}

reciprocal_match(a, b) ==
    {i \in DOMAIN matches :
        /\ matches[i].user_id = b
        /\ matches[i].target_user_id = a
        /\ IsSet(matches[i].intro_requested_at)}

(* Mutant: the quota counts every requested row, whatever its age. *)
recent_intros_all_time(a) ==
    Cardinality({i \in DOMAIN matches :
        /\ matches[i].user_id = a
        /\ IsSet(matches[i].intro_requested_at)})

recent_intros(a) ==
    Cardinality({i \in DOMAIN matches :
        /\ matches[i].user_id = a
        /\ IsSet(matches[i].intro_requested_at)
        /\ matches[i].intro_requested_at[1] >= now - Week})

(* Mutant: a dismissed row is final, the invite refuses to upgrade it. *)
invite_outcome_dismissed_final(current_user, profile_id, em) ==
    IF ~get_current_user(current_user) THEN "Forbidden"
    ELSE IF profile_id = current_user THEN "InvalidInput"
    ELSE IF ~active_target(profile_id) THEN "NotFound"
    ELSE IF em # None /\ IsSet(matches[em].intro_requested_at) THEN "AlreadyRequested"
    ELSE IF em # None /\ IsSet(matches[em].intro_accepted_at) THEN "AlreadyConnected"
    ELSE IF em # None /\ matches[em].status = "dismissed" THEN "InvalidState"
    ELSE IF recent_intros(current_user) >= WeeklyQuota THEN "RateLimited"
    ELSE "ok"

(* Mutant: the invite looks at intro_accepted_at before intro_requested_at. *)
invite_outcome_accepted_first(current_user, profile_id, em) ==
    IF ~get_current_user(current_user) THEN "Forbidden"
    ELSE IF profile_id = current_user THEN "InvalidInput"
    ELSE IF ~active_target(profile_id) THEN "NotFound"
    ELSE IF em # None /\ IsSet(matches[em].intro_accepted_at) THEN "AlreadyConnected"
    ELSE IF em # None /\ IsSet(matches[em].intro_requested_at) THEN "AlreadyRequested"
    ELSE IF recent_intros(current_user) >= WeeklyQuota THEN "RateLimited"
    ELSE "ok"

(* Mutant: the invite counts the quota before it looks at the actor's row. *)
invite_outcome_quota_first(current_user, profile_id, em) ==
    IF ~get_current_user(current_user) THEN "Forbidden"
    ELSE IF profile_id = current_user THEN "InvalidInput"
    ELSE IF ~active_target(profile_id) THEN "NotFound"
    ELSE IF recent_intros(current_user) >= WeeklyQuota THEN "RateLimited"
    ELSE IF em # None /\ IsSet(matches[em].intro_requested_at) THEN "AlreadyRequested"
    ELSE IF em # None /\ IsSet(matches[em].intro_accepted_at) THEN "AlreadyConnected"
    ELSE "ok"

(* Mutant: the invite does not look at the weekly quota. *)
invite_outcome_unmetered(current_user, profile_id, em) ==
    IF ~get_current_user(current_user) THEN "Forbidden"
    ELSE IF profile_id = current_user THEN "InvalidInput"
    ELSE IF ~active_target(profile_id) THEN "NotFound"
    ELSE IF em # None /\ IsSet(matches[em].intro_requested_at) THEN "AlreadyRequested"
    ELSE IF em # None /\ IsSet(matches[em].intro_accepted_at) THEN "AlreadyConnected"
    ELSE "ok"

invite_outcome(current_user, profile_id, em) ==
    IF ~get_current_user(current_user) THEN "Forbidden"
    ELSE IF profile_id = current_user THEN "InvalidInput"
    ELSE IF ~active_target(profile_id) THEN "NotFound"
    ELSE IF em # None /\ IsSet(matches[em].intro_requested_at) THEN "AlreadyRequested"
    ELSE IF em # None /\ IsSet(matches[em].intro_accepted_at) THEN "AlreadyConnected"
    ELSE IF recent_intros(current_user) >= WeeklyQuota THEN "RateLimited"
    ELSE "ok"

(* The Message built by the handler reaches the session (db.add) only on
   the branch `if not existing_match`. *)
invite_message_added(em) == em = None

send_invite_to_profile(current_user, profile_id) ==
    \E em \in First(existing_match(current_user, profile_id)),
       rm \in First(reciprocal_match(current_user, profile_id)) :
        LET out == invite_outcome(current_user, profile_id, em) IN
        IF out # "ok" THEN Raise("invite", out)
        ELSE
            LET id == IF em # None THEN em ELSE new_id(current_user, profile_id)
                own == IF rm # None
                       THEN IF em # None
                            THEN [matches EXCEPT ![em].status = "connected",
                                                 ![em].intro_requested_at = At(now),
                                                 ![em].intro_accepted_at = At(now)]
                            ELSE db_add(matches, id,
                                    Match(current_user, profile_id, "connected",
                                          At(now), At(now)))
                       ELSE IF em # None
                            THEN [matches EXCEPT ![em].status = "intro_requested",
                                                 ![em].intro_requested_at = At(now)]
                            ELSE db_add(matches, id,
                                    Match(current_user, profile_id, "intro_requested",
                                          At(now), Null))
                both == IF rm # None
                        THEN [own EXCEPT ![rm].status = "connected",
                                         ![rm].intro_accepted_at = At(now)]
                        ELSE own
            IN  /\ matches' = both
                /\ messages' = IF invite_message_added(em)
                               THEN Append(messages,
                                        Message(id, current_user, profile_id, "intro_request"))
                               ELSE messages
                /\ response' = Response("invite", "ok", rm # None)
                /\ UNCHANGED <<events, rsvps, inflight, users, now>>

(* Mutant: the handler inserts a row without looking for an existing one. *)
upsert_profile_insert(op, new_status, current_user, profile_id) ==
    IF ~get_current_user(current_user) THEN Raise(op, "Forbidden")
    ELSE IF profile_id = current_user THEN Raise(op, "InvalidInput")
    ELSE IF ~active_target(profile_id) THEN Raise(op, "NotFound")
    ELSE
        /\ matches' = db_add(matches, new_id(current_user, profile_id),
                             Match(current_user, profile_id, new_status, Null, Null))
        /\ response' = Response(op, "ok", FALSE)
        /\ UNCHANGED <<events, rsvps, inflight, users, messages, now>>

upsert_profile(op, new_status, current_user, profile_id) ==
    \E em \in First(existing_match(current_user, profile_id)) :
        IF ~get_current_user(current_user) THEN Raise(op, "Forbidden")
        ELSE IF profile_id = current_user THEN Raise(op, "InvalidInput")
        ELSE IF ~active_target(profile_id) THEN Raise(op, "NotFound")
        ELSE
            /\ matches' = IF em # None
                          THEN [matches EXCEPT ![em].status = new_status]
                          ELSE db_add(matches, new_id(current_user, profile_id),
                                  Match(current_user, profile_id, new_status, Null, Null))
            /\ response' = Response(op, "ok", FALSE)
            /\ UNCHANGED <<events, rsvps, inflight, users, messages, now>>

save_profile(current_user, profile_id) ==
    upsert_profile("save_profile", "saved", current_user, profile_id)

skip_profile(current_user, profile_id) ==
    upsert_profile("skip_profile", "dismissed", current_user, profile_id)

request_introduction_outcome(current_user, match_id) ==
    IF ~get_current_user(current_user) THEN "Forbidden"
    ELSE IF match_id \notin DOMAIN matches THEN "NotFound"
    ELSE IF matches[match_id].user_id # current_user THEN "Forbidden"
    ELSE IF IsSet(matches[match_id].intro_requested_at) THEN "InvalidState"
    ELSE IF IsSet(matches[match_id].intro_accepted_at) THEN "InvalidState"
    ELSE IF recent_intros(current_user) >= WeeklyQuota THEN "RateLimited"
    ELSE "ok"

(* Mutant: request_introduction connects both rows when the mirror row is
   already requested, as the invite handler does. *)
request_introduction_reciprocal(current_user, match_id) ==
    LET out == request_introduction_outcome(current_user, match_id) IN
    IF out # "ok" THEN Raise("request_introduction", out)
    ELSE
        \E rm \in First(reciprocal_match(current_user, matches[match_id].target_user_id)) :
            /\ matches' = IF rm # None
                          THEN [matches EXCEPT ![match_id].status = "connected",
                                               ![match_id].intro_requested_at = At(now),
                                               ![match_id].intro_accepted_at = At(now),
                                               ![rm].status = "connected",
                                               ![rm].intro_accepted_at = At(now)]
                          ELSE [matches EXCEPT ![match_id].status = "intro_requested",
                                               ![match_id].intro_requested_at = At(now)]
            /\ messages' = Append(messages,
                              Message(match_id, current_user,
                                      matches[match_id].target_user_id, "intro_request"))
            /\ response' = Response("request_introduction", "ok", FALSE)
            /\ UNCHANGED <<events, rsvps, inflight, users, now>>

request_introduction(current_user, match_id) ==
    LET out == request_introduction_outcome(current_user, match_id) IN
    IF out # "ok" THEN Raise("request_introduction", out)
    ELSE
        /\ matches' = [matches EXCEPT ![match_id].status = "intro_requested",
                                      ![match_id].intro_requested_at = At(now)]
        /\ messages' = Append(messages,
                          Message(match_id, current_user,
                                  matches[match_id].target_user_id, "intro_request"))
        /\ response' = Response("request_introduction", "ok", FALSE)
        /\ UNCHANGED <<events, rsvps, inflight, users, now>>

(* Mutant: an introduction already accepted can be answered again. *)
respond_to_introduction_outcome_again(current_user, match_id) ==
    IF ~get_current_user(current_user) THEN "Forbidden"
    ELSE IF match_id \notin DOMAIN matches THEN "NotFound"
    ELSE IF matches[match_id].target_user_id # current_user THEN "Forbidden"
    ELSE IF ~IsSet(matches[match_id].intro_requested_at) THEN "InvalidState"
    ELSE "ok"

respond_to_introduction_outcome(current_user, match_id) ==
    IF ~get_current_user(current_user) THEN "Forbidden"
    ELSE IF match_id \notin DOMAIN matches THEN "NotFound"
    ELSE IF matches[match_id].target_user_id # current_user THEN "Forbidden"
    ELSE IF ~IsSet(matches[match_id].intro_requested_at) THEN "InvalidState"
    ELSE IF IsSet(matches[match_id].intro_accepted_at) THEN "InvalidState"
    ELSE "ok"

respond_to_introduction(current_user, match_id, accept, with_message) ==
    LET out == respond_to_introduction_outcome(current_user, match_id) IN
    IF out # "ok" THEN Raise("respond_to_introduction", out)
    ELSE
        /\ matches' = IF accept
                      THEN [matches EXCEPT ![match_id].status = "connected",
                                           ![match_id].intro_accepted_at = At(now)]
                      ELSE [matches EXCEPT ![match_id].status = "dismissed"]
        /\ messages' = IF with_message
                       THEN Append(messages,
                               Message(match_id, current_user,
                                       matches[match_id].user_id, "intro_response"))
                       ELSE messages
        /\ response' = Response("respond_to_introduction", "ok", FALSE)
        /\ UNCHANGED <<events, rsvps, inflight, users, now>>

allowed_statuses == {"viewed", "saved", "dismissed"}

(* Mutant: only the owner of the match is held to the intro check. *)
update_match_status_outcome_owner_only(current_user, match_id, status) ==
    IF ~get_current_user(current_user) THEN "Forbidden"
    ELSE IF status \notin allowed_statuses THEN "InvalidInput"
    ELSE IF match_id \notin DOMAIN matches THEN "NotFound"
    ELSE IF /\ matches[match_id].user_id # current_user
            /\ matches[match_id].target_user_id # current_user THEN "Forbidden"
    ELSE IF /\ IsSet(matches[match_id].intro_requested_at)
            /\ matches[match_id].user_id = current_user
            /\ status \in {"saved", "dismissed"} THEN "InvalidState"
    ELSE "ok"

update_match_status_outcome(current_user, match_id, status) ==
    IF ~get_current_user(current_user) THEN "Forbidden"
    ELSE IF status \notin allowed_statuses THEN "InvalidInput"
    ELSE IF match_id \notin DOMAIN matches THEN "NotFound"
    ELSE IF /\ matches[match_id].user_id # current_user
            /\ matches[match_id].target_user_id # current_user THEN "Forbidden"
    ELSE IF /\ IsSet(matches[match_id].intro_requested_at)
            /\ status \in {"saved", "dismissed"} THEN "InvalidState"
    ELSE "ok"

(* Mutant: the new status is committed before the intro check raises. *)
update_match_status_commit_first(current_user, match_id, status) ==
    LET out == update_match_status_outcome(current_user, match_id, status) IN
    IF out \notin {"ok", "InvalidState"} THEN Raise("update_status", out)
    ELSE
        /\ matches' = [matches EXCEPT ![match_id].status = status]
        /\ response' = Response("update_status", out, FALSE)
        /\ UNCHANGED <<events, rsvps, inflight, users, messages, now>>

update_match_status(current_user, match_id, status) ==
    LET out == update_match_status_outcome(current_user, match_id, status) IN
    IF out # "ok" THEN Raise("update_status", out)
    ELSE
        /\ matches' = [matches EXCEPT ![match_id].status = status]
        /\ response' = Response("update_status", "ok", FALSE)
        /\ UNCHANGED <<events, rsvps, inflight, users, messages, now>>

-----------------------------------------------------------------------------
(* Listings *)

role_intent(u) ==
    IF u \in users.founder THEN "founder"
    ELSE IF u \in users.cofounder THEN "cofounder"
    ELSE "other"

(* The filters both listings share: active, not banned, not the caller,
   and the complementary role_intent for a founder or a cofounder. *)
listed(current_user, interacted_ids) ==
    {u \in Users :
        /\ u \notin users.is_inactive
        /\ u \notin users.is_banned
        /\ u # current_user
        /\ u \notin interacted_ids
        /\ role_intent(current_user) = "founder" => role_intent(u) = "cofounder"
        /\ role_intent(current_user) = "cofounder" => role_intent(u) = "founder"}

discover_interacted(current_user) ==
    {matches[i].target_user_id : i \in {j \in DOMAIN matches :
        /\ matches[j].user_id = current_user
        /\ matches[j].status \in {"saved", "dismissed", "viewed"}}}

(* Mutant: recommendations leaves out the same rows as discover. *)
recommendations_interacted_scoped(current_user) ==
    {matches[i].target_user_id : i \in {j \in DOMAIN matches :
        /\ matches[j].user_id = current_user
        /\ matches[j].status \in {"saved", "dismissed", "viewed"}}}

recommendations_interacted(current_user) ==
    {matches[i].target_user_id : i \in {j \in DOMAIN matches :
        matches[j].user_id = current_user}}

listing(op, current_user, found) ==
    IF ~get_current_user(current_user) THEN Raise(op, "Forbidden")
    ELSE
        /\ response' = [Response(op, "ok", FALSE) EXCEPT !.profiles = found]
        /\ UNCHANGED <<events, rsvps, inflight, users, matches, messages, now>>

discover_profiles(current_user) ==
    listing("discover", current_user,
            listed(current_user, discover_interacted(current_user)))

get_match_recommendations(current_user) ==
    listing("recommendations", current_user,
            listed(current_user, recommendations_interacted(current_user)))

-----------------------------------------------------------------------------
(* Messaging gate *)

(* Mutant: the daily cap counts the sender's Messages of every type. *)
recent_messages_any_type(sender) ==
    Cardinality({k \in DOMAIN messages :
        /\ messages[k].sender_id = sender
        /\ messages[k].created_at >= now - Day})

recent_messages(sender) ==
    Cardinality({k \in DOMAIN messages :
        /\ messages[k].sender_id = sender
        /\ messages[k].message_type = "message"
        /\ messages[k].created_at >= now - Day})

(* Mutant: the handler does not look at the status of the match. *)
send_message_outcome_ungated(current_user, match_id) ==
    IF ~get_current_user(current_user) THEN "Forbidden"
    ELSE IF match_id \notin DOMAIN matches THEN "NotFound"
    ELSE IF /\ matches[match_id].user_id # current_user
            /\ matches[match_id].target_user_id # current_user THEN "Forbidden"
    ELSE IF recent_messages(current_user) >= DailyCap THEN "RateLimited"
    ELSE "ok"

(* Mutant: the status of the match is checked before the caller. *)
send_message_outcome_status_first(current_user, match_id) ==
    IF ~get_current_user(current_user) THEN "Forbidden"
    ELSE IF match_id \notin DOMAIN matches THEN "NotFound"
    ELSE IF matches[match_id].status # "connected" THEN "InvalidState"
    ELSE IF /\ matches[match_id].user_id # current_user
            /\ matches[match_id].target_user_id # current_user THEN "Forbidden"
    ELSE IF recent_messages(current_user) >= DailyCap THEN "RateLimited"
    ELSE "ok"

send_message_outcome(current_user, match_id) ==
    IF ~get_current_user(current_user) THEN "Forbidden"
    ELSE IF match_id \notin DOMAIN matches THEN "NotFound"
    ELSE IF /\ matches[match_id].user_id # current_user
            /\ matches[match_id].target_user_id # current_user THEN "Forbidden"
    ELSE IF matches[match_id].status # "connected" THEN "InvalidState"
    ELSE IF recent_messages(current_user) >= DailyCap THEN "RateLimited"
    ELSE "ok"

send_message(current_user, match_id) ==
    LET out == send_message_outcome(current_user, match_id) IN
    IF out # "ok" THEN Raise("send_message", out)
    ELSE
        LET recipient_id == IF matches[match_id].user_id = current_user
                            THEN matches[match_id].target_user_id
                            ELSE matches[match_id].user_id
        IN  /\ messages' = Append(messages,
                              Message(match_id, current_user, recipient_id, "message"))
            /\ response' = Response("send_message", "ok", FALSE)
            /\ UNCHANGED <<events, rsvps, inflight, users, matches, now>>

(* Mutant: the handler stamps read_at on every call. *)
mark_message_read_restamp(current_user, message_id) ==
    IF ~get_current_user(current_user) THEN Raise("mark_read", "Forbidden")
    ELSE IF message_id \notin DOMAIN messages THEN Raise("mark_read", "NotFound")
    ELSE IF messages[message_id].recipient_id # current_user THEN Raise("mark_read", "Forbidden")
    ELSE
        /\ messages' = [messages EXCEPT ![message_id].is_read = TRUE,
                                        ![message_id].read_at = At(now)]
        /\ response' = Response("mark_read", "ok", FALSE)
        /\ UNCHANGED <<events, rsvps, inflight, users, matches, now>>

mark_message_read(current_user, message_id) ==
    IF ~get_current_user(current_user) THEN Raise("mark_read", "Forbidden")
    ELSE IF message_id \notin DOMAIN messages THEN Raise("mark_read", "NotFound")
    ELSE IF messages[message_id].recipient_id # current_user THEN Raise("mark_read", "Forbidden")
    ELSE
        /\ messages' = IF ~messages[message_id].is_read
                       THEN [messages EXCEPT ![message_id].is_read = TRUE,
                                             ![message_id].read_at = At(now)]
                       ELSE messages
        /\ response' = Response("mark_read", "ok", FALSE)
        /\ UNCHANGED <<events, rsvps, inflight, users, matches, now>>

mark_all_messages_read(current_user, match_id) ==
    IF ~get_current_user(current_user) THEN Raise("mark_all_read", "Forbidden")
    ELSE IF match_id \notin DOMAIN matches THEN Raise("mark_all_read", "NotFound")
    ELSE IF /\ matches[match_id].user_id # current_user
            /\ matches[match_id].target_user_id # current_user THEN Raise("mark_all_read", "Forbidden")
    ELSE
        /\ messages' = [k \in DOMAIN messages |->
                          IF /\ messages[k].match_id = match_id
                             /\ messages[k].recipient_id = current_user
                             /\ ~messages[k].is_read
                          THEN [messages[k] EXCEPT !.is_read = TRUE, !.read_at = At(now)]
                          ELSE messages[k]]
        /\ response' = Response("mark_all_read", "ok", FALSE)
        /\ UNCHANGED <<events, rsvps, inflight, users, matches, now>>

-----------------------------------------------------------------------------
(* Inbox summaries *)

(* db.query(Match).filter(or_(and_(user_id == me, connected),
                              and_(target_user_id == me, connected))).all() *)
connected_matches(current_user) ==
    {i \in DOMAIN matches :
        /\ matches[i].status = "connected"
        /\ \/ matches[i].user_id = current_user
           \/ matches[i].target_user_id = current_user}

other_user_id(current_user, i) ==
    IF matches[i].user_id = current_user
    THEN matches[i].target_user_id
    ELSE matches[i].user_id

unread_count(current_user, i) ==
    Cardinality({k \in DOMAIN messages :
        /\ messages[k].match_id = i
        /\ messages[k].recipient_id = current_user
        /\ ~messages[k].is_read})

RECURSIVE total(_, _)
total(current_user, rows) ==
    IF rows = {} THEN 0
    ELSE LET i == CHOOSE j \in rows : TRUE
         IN  unread_count(current_user, i) + total(current_user, rows \ {i})

(* The rows get_conversations can return, without pagination.  The query
   has no ORDER BY, so any connected row of a pair can be the first the
   loop sees; the loop keeps that row, skips the other rows of the pair
   (seen_pairs), and drops the pair if the other user is inactive or
   banned. *)
get_conversations(current_user) ==
    {{i \in seen : /\ other_user_id(current_user, i) \notin users.is_inactive
                   /\ other_user_id(current_user, i) \notin users.is_banned} :
        seen \in {rows \in SUBSET connected_matches(current_user) :
                    \A i \in connected_matches(current_user) :
                        Cardinality({j \in rows :
                            other_user_id(current_user, j) =
                                other_user_id(current_user, i)}) = 1}}

(* total_unread of get_unread_count *)
get_unread_count(current_user) ==
    total(current_user, connected_matches(current_user))

-----------------------------------------------------------------------------
(* Event RSVPs *)

RsvpStatuses == {"going", "maybe", "not_going"}

(* db.query(UserEventRSVP).filter(user_id, event_id).first(): the status of
   the caller's RSVP, or "none" *)
existing_rsvp(current_user, event_id) ==
    IF <<current_user, event_id>> \in DOMAIN rsvps
    THEN rsvps[<<current_user, event_id>>]
    ELSE "none"

net_attendee_change(existing, rsvp_status) ==
    IF existing # "going" /\ rsvp_status = "going" THEN 1
    ELSE IF existing = "going" /\ rsvp_status # "going" THEN 0 - 1
    ELSE 0

rsvp_outcome(current_user, event_id, rsvp_status) ==
    IF ~get_current_user(current_user) THEN "Forbidden"
    ELSE IF event_id \notin DOMAIN events \/ ~events[event_id].is_active THEN "NotFound"
    ELSE IF /\ net_attendee_change(existing_rsvp(current_user, event_id), rsvp_status) > 0
            /\ events[event_id].max_attendees # 0
            /\ events[event_id].current_attendees >= events[event_id].max_attendees
         THEN "Full"
    ELSE "ok"

(* max(0, event.current_attendees + net_attendee_change) *)
attendees_after(current_attendees, change) ==
    IF current_attendees + change < 0 THEN 0 ELSE current_attendees + change

(* The handler from its queries to its commit, no other request between *)
rsvp_to_event(current_user, event_id, rsvp_status) ==
    LET out == rsvp_outcome(current_user, event_id, rsvp_status) IN
    IF out # "ok" THEN Raise("rsvp", out)
    ELSE
        LET change == net_attendee_change(existing_rsvp(current_user, event_id), rsvp_status)
        IN  /\ rsvps' = [k \in DOMAIN rsvps \cup {<<current_user, event_id>>} |->
                            IF k = <<current_user, event_id>> THEN rsvp_status ELSE rsvps[k]]
            /\ events' = [events EXCEPT ![event_id].current_attendees =
                              attendees_after(@, change)]
            /\ response' = Response("rsvp", "ok", FALSE)
            /\ UNCHANGED <<inflight, users, matches, messages, now>>

(* The request of a worker: what its queries returned, and the value its
   session will write to event.current_attendees *)
RsvpRequest(current_user, event_id, rsvp_status, existing, read, write) ==
    [op |-> "rsvp", current_user |-> current_user, event_id |-> event_id,
     rsvp_status |-> rsvp_status, existing_rsvp |-> existing,
     attendees_read |-> read, attendees_write |-> write, pc |-> "read"]

rsvp_begin(w, current_user, event_id, rsvp_status) ==
    /\ inflight[w] = Idle
    /\ LET out == rsvp_outcome(current_user, event_id, rsvp_status) IN
       IF out # "ok" THEN Raise("rsvp", out)
       ELSE
           LET existing == existing_rsvp(current_user, event_id)
               read == events[event_id].current_attendees
           IN  /\ inflight' = [inflight EXCEPT ![w] =
                      RsvpRequest(current_user, event_id, rsvp_status, existing, read,
                          attendees_after(read, net_attendee_change(existing, rsvp_status)))]
               /\ UNCHANGED <<events, rsvps, users, matches, messages, now, response>>

(* db.commit(): the INSERT of a second RSVP row of the same user and event
   violates uq_user_event_rsvp and the transaction is rolled back; the
   UPDATE of the event row is issued only if the session changed the
   attribute, and it writes the value the session computed. *)
rsvp_commit(w) ==
    LET r == inflight[w]
        key == <<r.current_user, r.event_id>>
    IN  /\ r # Idle
        /\ r.pc = "read"
        /\ inflight' = [inflight EXCEPT ![w] = Idle]
        /\ IF r.existing_rsvp = "none" /\ key \in DOMAIN rsvps
           THEN /\ response' = Response("rsvp", "ServerError", FALSE)
                /\ UNCHANGED <<events, rsvps>>
           ELSE /\ rsvps' = [k \in DOMAIN rsvps \cup {key} |->
                               IF k = key THEN r.rsvp_status ELSE rsvps[k]]
                /\ events' = IF r.attendees_write # r.attendees_read
                             THEN [events EXCEPT ![r.event_id].current_attendees =
                                      r.attendees_write]
                             ELSE events
                /\ response' = Response("rsvp", "ok", FALSE)
        /\ UNCHANGED <<users, matches, messages, now>>

-----------------------------------------------------------------------------
(* Specifications *)

Init ==
    /\ users = [is_inactive |-> {}, is_banned |-> {}, founder |-> {}, cofounder |-> {}]
    /\ matches = <<>>
    /\ messages = <<>>
    /\ now = 0
    /\ response = Response("none", "none", FALSE)
    /\ inflight = [w \in Workers |-> Idle]
    /\ events = NoEvents
    /\ rsvps = <<>>

Tick(d) ==
    /\ now' = now + d
    /\ UNCHANGED <<events, rsvps, inflight, users, matches, messages, response>>

Size(f) == Cardinality(DOMAIN f)

Bounded == Size(matches') <= MaxMatches /\ Len(messages') <= MaxMessages

MatchIds == DOMAIN matches \cup {NoMatch}

(* Spec: users 1 and 2 browse each other; user 3 is an outsider who calls
   the handlers on their matches.  No handler outcome below depends on the
   clock while fewer than WeeklyQuota rows and DailyCap messages exist, so
   the clock is left to the two specifications that fill the windows. *)
Actors == {1, 2, 3}
Members == {1, 2}
Profiles == Members \cup {NoUser}

Invite == \E a \in Members, b \in Profiles : send_invite_to_profile(a, b) /\ Bounded
SaveProfile == \E a \in Members, b \in Profiles : save_profile(a, b) /\ Bounded
SkipProfile == \E a \in Members, b \in Profiles : skip_profile(a, b) /\ Bounded
RequestIntro == \E a \in Actors, m \in MatchIds : request_introduction(a, m) /\ Bounded
Respond ==
    \E a \in Actors, m \in MatchIds, accept \in BOOLEAN, with_message \in BOOLEAN :
        respond_to_introduction(a, m, accept, with_message) /\ Bounded
UpdateStatus ==
    \E a \in Actors, m \in MatchIds, s \in allowed_statuses \cup {"connected"} :
        update_match_status(a, m, s)
SendMessage == \E a \in Actors, m \in MatchIds : send_message(a, m) /\ Bounded

Next ==
    \/ Invite
    \/ SaveProfile
    \/ SkipProfile
    \/ RequestIntro
    \/ Respond
    \/ UpdateStatus
    \/ SendMessage

Spec == Init /\ [][Next]_vars

(* SpecQuota: user 1 first saves user 2 and may be invited by user 2, then
   invites the users of the crowd one after the other, and turns to user 2
   when one invitation of the quota is left or none; eight days may pass at
   any point. *)
NextCrowd == {b \in Crowd : \A c \in Crowd : existing_match(1, c) = {} => b <= c}

NoCrowdRow == \A c \in Crowd : existing_match(1, c) = {}

CrowdInvited == Cardinality({c \in Crowd : existing_match(1, c) # {}})

QuotaSetup ==
    /\ NoCrowdRow
    /\ \/ save_profile(1, 2)
       \/ send_invite_to_profile(2, 1)
QuotaInviteCrowd ==
    \E b \in NextCrowd : existing_match(1, b) = {} /\ send_invite_to_profile(1, b)
QuotaInviteMember ==
    /\ CrowdInvited + 1 >= WeeklyQuota
    /\ send_invite_to_profile(1, 2)
QuotaRequestIntro ==
    /\ CrowdInvited + 1 >= WeeklyQuota
    /\ \E m \in DOMAIN matches : m[2] = 2 /\ request_introduction(1, m)
QuotaClock == now + Week + Day <= MaxTimeQuota /\ Tick(Week + Day)

NextQuota ==
    \/ QuotaSetup
    \/ QuotaInviteCrowd
    \/ QuotaInviteMember
    \/ QuotaRequestIntro
    \/ QuotaClock

SpecQuota == Init /\ [][NextQuota]_vars

(* SpecCap: user 2 invites user 1, user 1 invites user 3 and accepts user 2,
   and then user 1 sends message after message on the match with user 2;
   two days may pass at any point of the conversation. *)
NoChatYet == \A k \in DOMAIN messages : messages[k].message_type # "message"

CapSetup ==
    /\ NoChatYet
    /\ \/ send_invite_to_profile(2, 1)
       \/ send_invite_to_profile(1, 3)
       \/ \E m \in DOMAIN matches, with_message \in BOOLEAN :
             respond_to_introduction(1, m, TRUE, with_message)
CapSend == \E m \in DOMAIN matches : m[2] = 1 /\ send_message(1, m)
CapClock ==
    /\ ~NoChatYet
    /\ now + Day + Day <= MaxTimeCap
    /\ Tick(Day + Day)

NextCap ==
    \/ CapSetup
    \/ CapSend
    \/ CapClock

SpecCap == Init /\ [][NextCap]_vars
(* SpecInbox: the nine handlers on the matches of users 1 and 2, user 3 an
   outsider. *)
MessageIds == DOMAIN messages \cup {Len(messages) + 1}

BoundedInbox == Size(matches') <= MaxMatches /\ Len(messages') <= MaxInbox

InboxInvite == \E a \in Members, b \in Profiles : send_invite_to_profile(a, b) /\ BoundedInbox
InboxSaveProfile == \E a \in Members, b \in Profiles : save_profile(a, b) /\ BoundedInbox
InboxSkipProfile == \E a \in Members, b \in Profiles : skip_profile(a, b) /\ BoundedInbox
InboxRequestIntro ==
    \E a \in Actors, m \in MatchIds : request_introduction(a, m) /\ BoundedInbox
InboxRespond ==
    \E a \in Actors, m \in MatchIds, accept \in BOOLEAN, with_message \in BOOLEAN :
        respond_to_introduction(a, m, accept, with_message) /\ BoundedInbox
InboxUpdateStatus ==
    \E a \in Actors, m \in MatchIds, s \in allowed_statuses \cup {"connected"} :
        update_match_status(a, m, s)
InboxSendMessage == \E a \in Actors, m \in MatchIds : send_message(a, m) /\ BoundedInbox
MarkRead == \E a \in Actors, k \in MessageIds : mark_message_read(a, k)
MarkAllRead == \E a \in Actors, m \in MatchIds : mark_all_messages_read(a, m)

NextInbox ==
    \/ InboxInvite
    \/ InboxSaveProfile
    \/ InboxSkipProfile
    \/ InboxRequestIntro
    \/ InboxRespond
    \/ InboxUpdateStatus
    \/ InboxSendMessage
    \/ MarkRead
    \/ MarkAllRead

SpecInbox == Init /\ [][NextInbox]_vars

(* SpecClock: users 1 and 2 invite and answer each other and read their
   inboxes while the clock moves one day at a time, so that a later write of
   a timestamp differs from an earlier one. *)
ClockInvite == \E a \in Members, b \in Members : send_invite_to_profile(a, b) /\ Bounded
ClockRespond ==
    \E a \in Members, m \in DOMAIN matches, accept \in BOOLEAN, with_message \in BOOLEAN :
        respond_to_introduction(a, m, accept, with_message) /\ Bounded
ClockMarkRead == \E a \in Members, k \in DOMAIN messages : mark_message_read(a, k)
ClockMarkAllRead == \E a \in Members, m \in DOMAIN matches : mark_all_messages_read(a, m)
ClockTick == now + Day <= MaxTimeClock /\ Tick(Day)

NextClock ==
    \/ ClockInvite
    \/ ClockRespond
    \/ ClockMarkRead
    \/ ClockMarkAllRead
    \/ ClockTick

SpecClock == Init /\ [][NextClock]_vars

(* SpecDirectory: user 1 browses.  The profile directory, which owns the
   User table, has given users 1 and 2 a role_intent and may have
   deactivated or banned user 2 and banned user 3; user 1 invites, saves,
   skips and lists profiles, and asks for an introduction on own matches. *)
InitDirectory ==
    /\ \E inactive \in SUBSET {2}, banned \in SUBSET {2, 3},
          founder \in SUBSET {1}, cofounder \in {{c} : c \in {1, 2}} :
          users = [is_inactive |-> inactive, is_banned |-> banned,
                   founder |-> founder, cofounder |-> cofounder \ founder]
    /\ matches = <<>>
    /\ messages = <<>>
    /\ now = 0
    /\ response = Response("none", "none", FALSE)
    /\ inflight = [w \in Workers |-> Idle]
    /\ events = NoEvents
    /\ rsvps = <<>>

Browser == {1}
Browsed == {1, 2, 3, NoUser}

DirInvite == \E a \in Browser, b \in Browsed : send_invite_to_profile(a, b)
DirSaveProfile == \E a \in Browser, b \in Browsed : save_profile(a, b)
DirSkipProfile == \E a \in Browser, b \in Browsed : skip_profile(a, b)
DirRequestIntro == \E a \in Browser, m \in DOMAIN matches : request_introduction(a, m)
Discover == \E a \in Browser : discover_profiles(a)
Recommendations == \E a \in Browser : get_match_recommendations(a)

NextDirectory ==
    \/ DirInvite
    \/ DirSaveProfile
    \/ DirSkipProfile
    \/ DirRequestIntro
    \/ Discover
    \/ Recommendations

SpecDirectory == InitDirectory /\ [][NextDirectory]_vars

(* SpecRace: two workers handle invite, save and skip requests of users 1
   and 2 toward each other at the same time.  Each request runs in a
   database session of its own: it first validates and reads the committed
   tables (the handler's queries, taken together), and its writes reach the
   tables at its db.commit().  The invite handler commits twice, the Match
   write first and the Message after it; between the two it refreshes the
   row, a query that fails when the connection is lost. *)
profile_outcome(current_user, profile_id) ==
    IF ~get_current_user(current_user) THEN "Forbidden"
    ELSE IF profile_id = current_user THEN "InvalidInput"
    ELSE IF ~active_target(profile_id) THEN "NotFound"
    ELSE "ok"

begin_request(w, op, current_user, profile_id) ==
    /\ inflight[w] = Idle
    /\ \E em \in First(existing_match(current_user, profile_id)),
          rm \in First(reciprocal_match(current_user, profile_id)) :
          LET out == IF op = "invite"
                     THEN invite_outcome(current_user, profile_id, em)
                     ELSE profile_outcome(current_user, profile_id)
          IN  IF out # "ok"
              THEN Raise(op, out)
              ELSE /\ inflight' = [inflight EXCEPT ![w] =
                          Request(op, current_user, profile_id, em,
                                  IF op = "invite" THEN rm ELSE None, "read")]
                   /\ UNCHANGED <<events, rsvps, users, matches, messages, now, response>>

commit_match(w) ==
    LET r == inflight[w]
        em == r.existing_match
        rm == r.reciprocal_match
        id == IF em # None THEN em ELSE new_id(r.current_user, r.profile_id)
        status == IF r.op = "save_profile" THEN "saved"
                  ELSE IF r.op = "skip_profile" THEN "dismissed"
                  ELSE IF rm # None THEN "connected"
                  ELSE "intro_requested"
        requested == IF r.op = "invite" THEN At(now) ELSE Null
        accepted == IF r.op = "invite" /\ rm # None THEN At(now) ELSE Null
        own == IF em = None
               THEN db_add(matches, id,
                       Match(r.current_user, r.profile_id, status, requested, accepted))
               ELSE IF r.op # "invite"
               THEN [matches EXCEPT ![em].status = status]
               ELSE IF rm # None
               THEN [matches EXCEPT ![em].status = status,
                                    ![em].intro_requested_at = requested,
                                    ![em].intro_accepted_at = accepted]
               ELSE [matches EXCEPT ![em].status = status,
                                    ![em].intro_requested_at = requested]
        both == IF rm # None
                THEN [own EXCEPT ![rm].status = "connected",
                                 ![rm].intro_accepted_at = At(now)]
                ELSE own
    IN  /\ r.pc = "read"
        /\ matches' = both
        /\ IF r.op = "invite" /\ invite_message_added(em)
           THEN /\ inflight' = [inflight EXCEPT ![w] =
                       Request(r.op, r.current_user, r.profile_id, id, rm,
                               "match_committed")]
                /\ UNCHANGED response
           ELSE /\ inflight' = [inflight EXCEPT ![w] = Idle]
                /\ response' = Response(r.op, "ok", rm # None)
        /\ UNCHANGED <<events, rsvps, users, messages, now>>

commit_message(w) ==
    LET r == inflight[w] IN
    /\ r.pc = "match_committed"
    /\ messages' = Append(messages,
                      Message(r.existing_match, r.current_user, r.profile_id,
                              "intro_request"))
    /\ inflight' = [inflight EXCEPT ![w] = Idle]
    /\ response' = Response(r.op, "ok", r.reciprocal_match # None)
    /\ UNCHANGED <<events, rsvps, users, matches, now>>

fail_after_commit(w) ==
    LET r == inflight[w] IN
    /\ r.pc = "match_committed"
    /\ inflight' = [inflight EXCEPT ![w] = Idle]
    /\ response' = Response(r.op, "ServerError", FALSE)
    /\ UNCHANGED <<events, rsvps, users, matches, messages, now>>

(* As many rows as the workers can insert at the same time *)
BoundedRace == Size(matches') <= MaxWorkers /\ Len(messages') <= MaxMessages

RaceBegin ==
    \E w \in Workers, op \in {"invite", "save_profile", "skip_profile"},
       a \in Members, b \in Members : begin_request(w, op, a, b)
RaceCommitMatch == \E w \in Workers : commit_match(w) /\ BoundedRace
RaceCommitMessage == \E w \in Workers : commit_message(w) /\ BoundedRace
RaceFail == \E w \in Workers : fail_after_commit(w)

NextRace ==
    \/ RaceBegin
    \/ RaceCommitMatch
    \/ RaceCommitMessage
    \/ RaceFail

SpecRace == Init /\ [][NextRace]_vars

(* SpecDouble: the two workers handle invite requests of users 1 and 2
   toward each other.  The server runs a handler it has entered to its end,
   so a request that has read goes on to its commits; nothing in the
   repository runs between requests (no scheduler, no background task), so
   only the commits are fair. *)
DoubleBegin ==
    \E w \in Workers, a \in Members, b \in Members : begin_request(w, "invite", a, b)
DoubleCommitMatch(w) == commit_match(w) /\ BoundedRace
DoubleCommitMessage(w) == commit_message(w) /\ BoundedRace

NextDouble ==
    \/ DoubleBegin
    \/ \E w \in Workers : DoubleCommitMatch(w)
    \/ \E w \in Workers : DoubleCommitMessage(w)

SpecDouble ==
    /\ Init
    /\ [][NextDouble]_vars
    /\ \A w \in Workers : WF_vars(DoubleCommitMatch(w)) /\ WF_vars(DoubleCommitMessage(w))

(* SpecQuotaRace: user 1 invites one user after the other, each request to
   a user neither invited yet nor the target of a request in flight.  A
   request is either handled alone, from its queries to its last commit
   while no other request is in flight, or, once twice as many invitations are
   left of the quota as there are workers, by a worker next to the requests
   of the other workers. *)
Pending == {inflight[w].profile_id : w \in Workers}

FreeTargets ==
    {b \in Users : b # 1 /\ existing_match(1, b) = {} /\ b \notin Pending}

NextTarget == {b \in FreeTargets : \A c \in FreeTargets : b <= c}

AllIdle == \A w \in Workers : inflight[w] = Idle

QuotaRaceInvite == AllIdle /\ \E b \in NextTarget : send_invite_to_profile(1, b)
QuotaRaceBegin ==
    /\ recent_intros(1) + 2 * MaxWorkers >= WeeklyQuota
    /\ \E w \in Workers, b \in NextTarget : begin_request(w, "invite", 1, b)
QuotaRaceCommitMatch == \E w \in Workers : commit_match(w)
QuotaRaceCommitMessage == \E w \in Workers : commit_message(w)

NextQuotaRace ==
    \/ QuotaRaceInvite
    \/ QuotaRaceBegin
    \/ QuotaRaceCommitMatch
    \/ QuotaRaceCommitMessage

SpecQuotaRace == Init /\ [][NextQuotaRace]_vars

(* SpecAccounts: the account of user 2 may be banned, deactivated or both.
   User 1 invites, saves and skips user 2, and user 2 calls every handler,
   on the matches of the two and on ids that do not exist. *)
InitAccounts ==
    /\ \E inactive \in SUBSET {2}, banned \in SUBSET {2} :
          users = [is_inactive |-> inactive, is_banned |-> banned,
                   founder |-> {}, cofounder |-> {}]
    /\ matches = <<>>
    /\ messages = <<>>
    /\ now = 0
    /\ response = Response("none", "none", FALSE)
    /\ inflight = [w \in Workers |-> Idle]
    /\ events = NoEvents
    /\ rsvps = <<>>

Owner == {1}
Caller == {2}

AccountsSetup ==
    \E a \in Owner, b \in Caller :
        /\ \/ send_invite_to_profile(a, b)
           \/ save_profile(a, b)
           \/ skip_profile(a, b)
        /\ BoundedInbox
AccountsInvite ==
    \E a \in Caller, b \in Profiles : send_invite_to_profile(a, b) /\ BoundedInbox
AccountsSaveProfile ==
    \E a \in Caller, b \in Profiles : save_profile(a, b) /\ BoundedInbox
AccountsSkipProfile ==
    \E a \in Caller, b \in Profiles : skip_profile(a, b) /\ BoundedInbox
AccountsRequestIntro ==
    \E a \in Caller, m \in MatchIds : request_introduction(a, m) /\ BoundedInbox
AccountsRespond ==
    \E a \in Caller, m \in MatchIds, accept \in BOOLEAN, with_message \in BOOLEAN :
        respond_to_introduction(a, m, accept, with_message) /\ BoundedInbox
AccountsUpdateStatus ==
    \E a \in Caller, m \in MatchIds, s \in allowed_statuses :
        update_match_status(a, m, s)
AccountsSendMessage ==
    \E a \in Caller, m \in MatchIds : send_message(a, m) /\ BoundedInbox
AccountsMarkRead == \E a \in Caller, k \in MessageIds : mark_message_read(a, k)
AccountsMarkAllRead == \E a \in Caller, m \in MatchIds : mark_all_messages_read(a, m)

NextAccounts ==
    \/ AccountsSetup
    \/ AccountsInvite
    \/ AccountsSaveProfile
    \/ AccountsSkipProfile
    \/ AccountsRequestIntro
    \/ AccountsRespond
    \/ AccountsUpdateStatus
    \/ AccountsSendMessage
    \/ AccountsMarkRead
    \/ AccountsMarkAllRead

SpecAccounts == InitAccounts /\ [][NextAccounts]_vars

(* SpecRsvp: users 1, 2 and 3 answer the invitation to one event of
   capacity 1..MaxCapacity, each request handled alone or by a worker next
   to the requests of the other workers. *)
EventIds == 1..MaxEvents

InitRsvp ==
    /\ users = [is_inactive |-> {}, is_banned |-> {}, founder |-> {}, cofounder |-> {}]
    /\ matches = <<>>
    /\ messages = <<>>
    /\ now = 0
    /\ response = Response("none", "none", FALSE)
    /\ inflight = [w \in Workers |-> Idle]
    /\ \E max_attendees \in 1..MaxCapacity :
          events = [e \in EventIds |-> Event(max_attendees)]
    /\ rsvps = <<>>

RsvpAlone ==
    /\ \A w \in Workers : inflight[w] = Idle
    /\ \E a \in Actors, e \in EventIds \cup {MaxEvents + 1}, st \in RsvpStatuses :
          rsvp_to_event(a, e, st)
RsvpBegin ==
    \E w \in Workers, a \in Actors, e \in EventIds, st \in RsvpStatuses :
        rsvp_begin(w, a, e, st)
RsvpCommit == \E w \in Workers : rsvp_commit(w)

NextRsvp ==
    \/ RsvpAlone
    \/ RsvpBegin
    \/ RsvpCommit

SpecRsvp == InitRsvp /\ [][NextRsvp]_vars

-----------------------------------------------------------------------------
(* Properties *)

RowsOf(a, b) ==
    {i \in DOMAIN matches : matches[i].user_id = a /\ matches[i].target_user_id = b}

HasRequested(a, b) ==
    \E i \in RowsOf(a, b) : IsSet(matches[i].intro_requested_at)

TablesUnchanged == UNCHANGED <<matches, messages>>

OneRowPerPair ==
    /\ \A i, j \in DOMAIN matches :
          (/\ matches[i].user_id = matches[j].user_id
           /\ matches[i].target_user_id = matches[j].target_user_id) => i = j
    /\ \A i \in DOMAIN matches : matches[i].user_id # matches[i].target_user_id

SecondInviteFails ==
    response'.op = "invite" =>
    \A a \in Members, b \in Members :
        /\ (send_invite_to_profile(a, b) /\ response'.outcome = "ok")
              => HasRequested(a, b)'
        /\ (send_invite_to_profile(a, b) /\ HasRequested(a, b))
              => /\ response'.outcome \in {"AlreadyRequested", "AlreadyConnected"}
                 /\ TablesUnchanged

\* C1: in every state reached by the handlers run one after the other there
\* is at most one Match row per ordered pair (user_id, target_user_id), and
\* no row from a user to themselves; a successful invite(a,b) leaves row
\* (a,b) with intro_requested_at set, and every invite(a,b) on such a row
\* fails AlreadyRequested or AlreadyConnected and changes no row.
C1_OneRowPerPair == []OneRowPerPair /\ [][SecondInviteFails]_vars

C1_Witness ==
    /\ response.op = "invite"
    /\ response.outcome = "AlreadyRequested"
    /\ \E a \in Members, b \in Members : HasRequested(a, b)

NewMessages == {k \in DOMAIN messages' : k \notin DOMAIN messages}

OneIntroRequestAdded(a, b) ==
    /\ Len(messages') = Len(messages) + 1
    /\ \A k \in DOMAIN messages : messages'[k] = messages[k]
    /\ LET msg == messages'[Len(messages')] IN
          /\ msg.message_type = "intro_request"
          /\ msg.sender_id = a
          /\ msg.recipient_id = b
          /\ msg.match_id \in RowsOf(a, b)'

BothConnected(a, b) ==
    /\ RowsOf(a, b) # {}
    /\ RowsOf(b, a) # {}
    /\ \A i \in RowsOf(a, b) \cup RowsOf(b, a) :
          /\ matches[i].status = "connected"
          /\ IsSet(matches[i].intro_accepted_at)

\* C2: reciprocity.  When row (b,a) has intro_requested_at set and
\* invite(a,b) succeeds, both rows end connected with intro_accepted_at set,
\* the response has auto_connected = true, and the call adds exactly one
\* Message, an intro_request from a to b attached to row (a,b), whether or
\* not a row (a,b) existed before.
C2_Reciprocity ==
    [][response'.op = "invite" =>
       \A a \in Members, b \in Members :
          (/\ HasRequested(b, a)
           /\ send_invite_to_profile(a, b)
           /\ response'.outcome = "ok")
          => /\ BothConnected(a, b)'
             /\ response'.auto_connected
             /\ OneIntroRequestAdded(a, b)]_vars

\* C3: when no row (b,a) has intro_requested_at set and invite(a,b)
\* succeeds, there is exactly one row (a,b), it is intro_requested with
\* intro_requested_at set, the response has auto_connected = false, and the
\* call adds exactly one Message, an intro_request from a to b attached to
\* that row, whether or not a row (a,b) existed before.
C3_PlainInvite ==
    [][response'.op = "invite" =>
       \A a \in Members, b \in Members :
          (/\ ~HasRequested(b, a)
           /\ send_invite_to_profile(a, b)
           /\ response'.outcome = "ok")
          => /\ Cardinality(RowsOf(a, b)') = 1
             /\ \A i \in RowsOf(a, b)' :
                   /\ matches'[i].status = "intro_requested"
                   /\ IsSet(matches'[i].intro_requested_at)
             /\ ~response'.auto_connected
             /\ OneIntroRequestAdded(a, b)]_vars

InWindow(a) ==
    Cardinality({i \in DOMAIN matches :
        /\ matches[i].user_id = a
        /\ IsSet(matches[i].intro_requested_at)
        /\ now - matches[i].intro_requested_at[1] <= Week})

AgedOut(a) ==
    {i \in DOMAIN matches :
        /\ matches[i].user_id = a
        /\ IsSet(matches[i].intro_requested_at)
        /\ now - matches[i].intro_requested_at[1] > Week}

QuotaDecides(a) ==
    IF InWindow(a) >= WeeklyQuota
    THEN response'.outcome = "RateLimited" /\ TablesUnchanged
    ELSE response'.outcome = "ok"

WeeklyQuotaStep ==
    /\ response'.op = "invite" =>
          \A a \in Members, b \in Users :
             (a # b /\ ~HasRequested(a, b) /\ send_invite_to_profile(a, b))
                => QuotaDecides(a)
    /\ response'.op = "request_introduction" =>
          \A a \in Members, m \in DOMAIN matches :
             (/\ matches[m].user_id = a
              /\ ~IsSet(matches[m].intro_requested_at)
              /\ request_introduction(a, m))
                => QuotaDecides(a)

Participants(m) == {matches[m].user_id, matches[m].target_user_id}

ChatIsBetweenParticipants ==
    \A k \in DOMAIN messages :
        messages[k].message_type = "message" =>
            /\ messages[k].match_id \in DOMAIN matches
            /\ messages[k].sender_id # messages[k].recipient_id
            /\ {messages[k].sender_id, messages[k].recipient_id}
                  = Participants(messages[k].match_id)

ChatCreatedWhenConnected ==
    /\ \A k \in NewMessages :
          messages'[k].message_type = "message" =>
              /\ messages'[k].match_id \in DOMAIN matches
              /\ matches[messages'[k].match_id].status = "connected"
    /\ \A k \in DOMAIN messages :
          /\ k \in DOMAIN messages'
          /\ messages'[k].message_type = messages[k].message_type
          /\ messages'[k].match_id = messages[k].match_id
          /\ messages'[k].sender_id = messages[k].sender_id
          /\ messages'[k].recipient_id = messages[k].recipient_id

\* C5: every Message of type message is created by a step that starts with
\* its owning Match connected, keeps its type, match, sender and recipient
\* from then on, and its sender and recipient are the two distinct
\* participants of that Match.
C5_ChatOnlyWhenConnected ==
    []ChatIsBetweenParticipants /\ [][ChatCreatedWhenConnected]_vars

C5_Witness ==
    \E k \in DOMAIN messages :
        /\ messages[k].message_type = "message"
        /\ response.op = "send_message"
        /\ response.outcome = "ok"

\* C6 as claimed: send_message on an existing match that is not connected
\* fails with InvalidState for every caller, participant or not, and
\* creates no Message.
C6_GateForEveryCaller ==
    [][response'.op = "send_message" =>
       \A a \in Actors, m \in DOMAIN matches :
          (matches[m].status # "connected" /\ send_message(a, m))
             => response'.outcome = "InvalidState" /\ TablesUnchanged]_vars

\* C6 as amended: send_message on an existing match that is not connected
\* fails with InvalidState for each of the two participants and with
\* Forbidden for every other caller, and creates no Message.
C6_GateForParticipants ==
    [][response'.op = "send_message" =>
       \A a \in Actors, m \in DOMAIN matches :
          (matches[m].status # "connected" /\ send_message(a, m))
             => /\ response'.outcome =
                      IF a \in Participants(m) THEN "InvalidState" ELSE "Forbidden"
                /\ TablesUnchanged]_vars

C6_Witness ==
    /\ response.op = "send_message"
    /\ response.outcome = "InvalidState"
    /\ \E m \in DOMAIN matches : matches[m].status # "connected"

ChatInLastDay(a) ==
    Cardinality({k \in DOMAIN messages :
        /\ messages[k].sender_id = a
        /\ messages[k].message_type = "message"
        /\ now - messages[k].created_at <= Day})

IntrosInLastDay(a) ==
    {messages[k].message_type : k \in {j \in DOMAIN messages :
        /\ messages[j].sender_id = a
        /\ messages[j].message_type # "message"
        /\ now - messages[j].created_at <= Day}}

DailyCapStep ==
    response'.op = "send_message" =>
       \A a \in Actors, m \in DOMAIN matches :
          (/\ a \in Participants(m)
           /\ matches[m].status = "connected"
           /\ send_message(a, m))
             => IF ChatInLastDay(a) >= DailyCap
                THEN response'.outcome = "RateLimited" /\ TablesUnchanged
                ELSE /\ response'.outcome = "ok"
                     /\ Len(messages') = Len(messages) + 1
                     /\ \A k \in DOMAIN messages : messages'[k] = messages[k]
                     /\ messages'[Len(messages')].message_type = "message"
                     /\ messages'[Len(messages')].sender_id = a
                     /\ ~messages'[Len(messages')].is_read

\* C7: daily cap.  A send_message by a participant of a connected match is
\* RateLimited and creates no Message when the sender has 50 Messages of
\* type message created within the last 24 hours; with fewer it succeeds
\* and persists one Message with is_read = false, however many
\* intro_request and intro_response Messages the sender has sent.
C7_DailyCap == [][DailyCapStep]_vars

C7_Witness ==
    /\ response.op = "send_message"
    /\ response.outcome = "RateLimited"
    /\ ChatInLastDay(1) = DailyCap
    /\ IntrosInLastDay(1) = {"intro_request", "intro_response"}

\* C8: once a Match is connected, no handler of the lifecycle manager
\* changes its status.
C8_ConnectedStays ==
    [][\A i \in DOMAIN matches :
          matches[i].status = "connected" =>
              i \in DOMAIN matches' /\ matches'[i].status = "connected"]_vars

OtherRowsUnchanged(m) ==
    /\ DOMAIN matches' = DOMAIN matches
    /\ \A j \in DOMAIN matches : j # m => matches'[j] = matches[j]

NoAutoConnectStep ==
    (response'.op = "request_introduction" /\ response'.outcome = "ok") =>
       \A a \in Members, m \in DOMAIN matches :
          request_introduction(a, m)
             => /\ matches'[m].status = "intro_requested"
                /\ IsSet(matches'[m].intro_requested_at)
                /\ ~IsSet(matches'[m].intro_accepted_at)
                /\ OtherRowsUnchanged(m)
                /\ ~response'.auto_connected

\* C9: a successful request_introduction by a on own row (a,b) leaves that
\* row intro_requested with intro_accepted_at null and every other row,
\* the mirror row (b,a) included, as it was, also when the mirror row
\* already has intro_requested_at set.
C9_NoAutoConnect == [][NoAutoConnectStep]_vars

C9_Witness ==
    /\ response.op = "request_introduction"
    /\ response.outcome = "ok"
    /\ \E i, j \in DOMAIN matches :
          /\ matches[i].user_id = matches[j].target_user_id
          /\ matches[i].target_user_id = matches[j].user_id
          /\ matches[i].status = "intro_requested"
          /\ matches[j].status = "intro_requested"
          /\ ~IsSet(matches[i].intro_accepted_at)
          /\ ~IsSet(matches[j].intro_accepted_at)

RespondStep ==
    response'.op = "respond_to_introduction" =>
       \A a \in Actors, m \in DOMAIN matches, accept \in BOOLEAN, with_message \in BOOLEAN :
          respond_to_introduction(a, m, accept, with_message)
             => IF a # matches[m].target_user_id
                THEN response'.outcome = "Forbidden" /\ TablesUnchanged
                ELSE IF \/ ~IsSet(matches[m].intro_requested_at)
                        \/ IsSet(matches[m].intro_accepted_at)
                THEN response'.outcome = "InvalidState" /\ TablesUnchanged
                ELSE /\ response'.outcome = "ok"
                     /\ OtherRowsUnchanged(m)
                     /\ matches'[m].intro_requested_at = matches[m].intro_requested_at
                     /\ IF accept
                        THEN /\ matches'[m].status = "connected"
                             /\ matches'[m].intro_accepted_at = At(now)
                        ELSE /\ matches'[m].status = "dismissed"
                             /\ matches'[m].intro_accepted_at = Null

\* C10: respond_to_introduction on an existing match is Forbidden for every
\* caller but the match's target_user_id, InvalidState for the target when
\* intro_requested_at is null or intro_accepted_at is set, and in both
\* cases changes no Match and no Message; otherwise it succeeds, accept
\* setting status connected and intro_accepted_at, decline setting status
\* dismissed with intro_accepted_at still null.
C10_Respond == [][RespondStep]_vars

C10_Witness ==
    /\ response.op = "respond_to_introduction"
    /\ response.outcome = "InvalidState"
    /\ \E m \in DOMAIN matches :
          /\ matches[m].status = "connected"
          /\ IsSet(matches[m].intro_accepted_at)

AcceptedWithConnected ==
    \A i \in DOMAIN matches' :
        (/\ IsSet(matches'[i].intro_accepted_at)
         /\ (i \in DOMAIN matches => ~IsSet(matches[i].intro_accepted_at)))
            => matches'[i].status = "connected"

AcceptedKept ==
    \A i \in DOMAIN matches :
        IsSet(matches[i].intro_accepted_at) =>
            matches'[i].intro_accepted_at = matches[i].intro_accepted_at

\* C11: intro_accepted_at of a Match row is written only by a step that
\* leaves the row connected, and once it is non-null no later step changes
\* its value, a later invite by the other user that finds the row as the
\* reciprocal row included.
C11_AcceptedOnce == [][AcceptedWithConnected /\ AcceptedKept]_vars

Dismissed(a, b) == \E i \in RowsOf(a, b) : matches[i].status = "dismissed"

Reinvited(a, b) ==
    /\ response'.outcome = "ok"
    /\ \A i \in RowsOf(a, b)' :
          matches'[i].status =
             IF HasRequested(b, a) THEN "connected" ELSE "intro_requested"

\* C12 as claimed: whenever row (a,b) is dismissed, however it became so,
\* an invite(a,b) by its owner succeeds and leaves the row intro_requested
\* or connected.
C12_ReinviteAnyDismissed ==
    [][response'.op = "invite" =>
       \A a \in Members, b \in Members :
          (Dismissed(a, b) /\ send_invite_to_profile(a, b))
             => /\ response'.outcome = "ok"
                /\ \A i \in RowsOf(a, b)' :
                      matches'[i].status \in {"intro_requested", "connected"}]_vars

\* C12 as amended: an invite(a,b) by the owner of a dismissed row (a,b)
\* succeeds, leaving the row intro_requested, or connected when the mirror
\* row is requested, if the row's intro_requested_at is null; if it is set
\* (a declined introduction, or a row skipped after the request), the
\* invite fails AlreadyRequested and changes nothing.
C12_ReinviteUnrequested ==
    [][response'.op = "invite" =>
       \A a \in Members, b \in Members :
          (Dismissed(a, b) /\ send_invite_to_profile(a, b))
             => IF HasRequested(a, b)
                THEN response'.outcome = "AlreadyRequested" /\ TablesUnchanged
                ELSE Reinvited(a, b)]_vars

C12_Witness ==
    /\ response.op = "invite"
    /\ response.outcome = "AlreadyRequested"
    /\ \E a \in Members, b \in Members : Dismissed(a, b) /\ HasRequested(a, b)

Resolves(b) ==
    /\ b \in Users
    /\ b \notin users.is_inactive
    /\ b \notin users.is_banned

\* C13: an invite by an authenticated actor fails with InvalidInput when
\* the target is the actor, and fails with NotFound, changing no Match and
\* no Message, when the target does not exist, is inactive or is banned.
C13_InviteTarget ==
    [][response'.op = "invite" =>
       \A a \in Browser, b \in Browsed :
          send_invite_to_profile(a, b)
             => /\ b = a => response'.outcome = "InvalidInput"
                /\ (b # a /\ ~Resolves(b))
                      => response'.outcome = "NotFound" /\ TablesUnchanged]_vars

\* C14: update_status to saved or dismissed by a participant of a match
\* whose intro_requested_at is non-null fails with InvalidState and leaves
\* every Match and Message as it was.
C14_StatusGate ==
    [][response'.op = "update_status" =>
       \A a \in Actors, m \in DOMAIN matches, st \in {"saved", "dismissed"} :
          (/\ a \in Participants(m)
           /\ IsSet(matches[m].intro_requested_at)
           /\ update_match_status(a, m, st))
             => response'.outcome = "InvalidState" /\ TablesUnchanged]_vars

C14_Witness ==
    /\ response.op = "update_status"
    /\ response.outcome = "InvalidState"
    /\ \E m \in DOMAIN matches : IsSet(matches[m].intro_requested_at)

UpsertStep(a, b, st) ==
    /\ response'.outcome = "ok"
    /\ messages' = messages
    /\ Cardinality(RowsOf(a, b)') = 1
    /\ \A i \in RowsOf(a, b)' : matches'[i].status = st
    /\ \A i \in RowsOf(a, b) : matches' = [matches EXCEPT ![i].status = st]
    /\ RowsOf(a, b) = {} =>
          /\ \A i \in DOMAIN matches : i \in DOMAIN matches' /\ matches'[i] = matches[i]
          /\ \A i \in RowsOf(a, b)' :
                /\ matches'[i].intro_requested_at = Null
                /\ matches'[i].intro_accepted_at = Null
    /\ (\E i \in RowsOf(a, b) : matches[i].status = st) => TablesUnchanged

\* C15: a successful save_profile(a,b) (resp. skip_profile) leaves exactly
\* one row (a,b), with status saved (resp. dismissed); on an existing row
\* it changes the status and nothing else, so intro_requested_at and
\* intro_accepted_at stay, and on a row that already has the status it
\* changes nothing: a second call leaves the state of the first.
C15_IdempotentUpsert ==
    [][/\ response'.op = "save_profile" =>
             \A a \in Members, b \in Members :
                (a # b /\ save_profile(a, b)) => UpsertStep(a, b, "saved")
       /\ response'.op = "skip_profile" =>
             \A a \in Members, b \in Members :
                (a # b /\ skip_profile(a, b)) => UpsertStep(a, b, "dismissed")]_vars

C15_Witness ==
    /\ response.op = "save_profile"
    /\ response.outcome = "ok"
    /\ \E i \in DOMAIN matches :
          /\ matches[i].status = "saved"
          /\ IsSet(matches[i].intro_requested_at)
          /\ IsSet(matches[i].intro_accepted_at)

MarkReadStep ==
    response'.op = "mark_read" =>
       \A a \in Members, k \in DOMAIN messages :
          mark_message_read(a, k)
             => IF a # messages[k].recipient_id
                THEN response'.outcome = "Forbidden" /\ TablesUnchanged
                ELSE /\ response'.outcome = "ok"
                     /\ matches' = matches
                     /\ messages' =
                           IF messages[k].is_read THEN messages
                           ELSE [messages EXCEPT ![k].is_read = TRUE,
                                                 ![k].read_at = At(now)]

ReadStays ==
    \A k \in DOMAIN messages :
        messages[k].is_read =>
            /\ k \in DOMAIN messages'
            /\ messages'[k].is_read
            /\ messages'[k].read_at = messages[k].read_at

\* C16: mark_read by the recipient marks an unread message read at the
\* time of the call and changes nothing on a message already read;
\* mark_read by anyone else fails with Forbidden and changes nothing; and
\* no step takes is_read from true to false or changes a read_at once set.
C16_MarkReadOnce == [][MarkReadStep /\ ReadStays]_vars

C16_Witness ==
    /\ response.op = "mark_read"
    /\ response.outcome = "ok"
    /\ \E k \in DOMAIN messages :
          /\ messages[k].is_read
          /\ messages[k].read_at # At(now)

JustSkipped(a, c) ==
    /\ response.op = "skip_profile"
    /\ response.outcome = "ok"
    /\ \E i \in RowsOf(a, c) : matches[i].status = "dismissed"

DiscoverResult(a) == listed(a, discover_interacted(a))

RecommendationsResult(a) == listed(a, recommendations_interacted(a))

\* C17 as claimed: once skip_profile(A,C) has left row (A,C) dismissed, C
\* is in no later discover result and no later recommendations result of
\* A, whatever operation follows: here, whatever step is taken from a state
\* in which a skip_profile has just left row (A,C) dismissed.
C17_SkippedNeverListed ==
    [][\A a \in Browser, c \in Browsed :
          JustSkipped(a, c) =>
             /\ c \notin DiscoverResult(a)'
             /\ c \notin RecommendationsResult(a)']_vars

StaysOut ==
    \A a \in Browser, c \in Browsed :
        RowsOf(a, c) # {} =>
           /\ c \notin RecommendationsResult(a)
           /\ c \notin RecommendationsResult(a)'

ListingStep ==
    /\ (response'.op = "discover" /\ response'.outcome = "ok") =>
          \A a \in Browser :
             discover_profiles(a) =>
                \A u \in response'.profiles :
                   /\ u # a
                   /\ Resolves(u)
                   /\ \A i \in RowsOf(a, u) :
                         matches[i].status \notin {"saved", "dismissed", "viewed"}
    /\ (response'.op = "recommendations" /\ response'.outcome = "ok") =>
          \A a \in Browser :
             get_match_recommendations(a) =>
                \A u \in response'.profiles :
                   /\ u # a
                   /\ Resolves(u)
                   /\ RowsOf(a, u) = {}

\* C17 as amended: discover never returns the actor, a banned or inactive
\* user, or a user to whom the actor has a row with status saved,
\* dismissed or viewed; recommendations never returns the actor, a banned
\* or inactive user, or a user to whom the actor has any row; and a user
\* to whom the actor has a row, dismissed by skip_profile or not, is in the
\* actor's recommendations neither before nor after any step.
C17_Listings == [][ListingStep /\ StaysOut]_vars

C17_Witness ==
    /\ response.op = "discover"
    /\ response.outcome = "ok"
    /\ \E a \in Browser, c \in Browsed :
          /\ c \in response.profiles
          /\ c \notin RecommendationsResult(a)
          /\ RowsOf(a, c) # {}

Errors == {"InvalidInput", "NotFound", "Forbidden", "InvalidState",
           "AlreadyRequested", "AlreadyConnected", "RateLimited"}

Handlers == {"invite", "request_introduction", "respond_to_introduction",
             "update_status", "save_profile", "skip_profile", "send_message",
             "mark_read", "mark_all_read"}

\* C18: validate-then-act.  Every call of invite, request_introduction,
\* respond_to_introduction, update_status, save_profile, skip_profile,
\* send_message, mark_read or mark_all_read that answers with an error
\* leaves every Match row and every Message row exactly as before the call,
\* and every call answers ok or with one of the errors.
C18_ValidateThenAct ==
    [][/\ response'.op \in Handlers
       /\ response'.outcome \in Errors \cup {"ok"}
       /\ response'.outcome \in Errors => TablesUnchanged]_vars

C18_Witness ==
    /\ response.op = "mark_all_read"
    /\ response.outcome = "Forbidden"
    /\ \E k \in DOMAIN messages : ~messages[k].is_read
    /\ \E m \in DOMAIN matches : matches[m].status = "connected"

\* C19: each invite is all-or-nothing.  In every committed state, every
\* Match row with intro_requested_at set has its intro_request Message
\* persisted, whatever other requests run at the same time and wherever a
\* request fails.
C19_InviteAtomic ==
    \A i \in DOMAIN matches :
        IsSet(matches[i].intro_requested_at) =>
            \E k \in DOMAIN messages :
                /\ messages[k].match_id = i
                /\ messages[k].message_type = "intro_request"

\* C20: one row per ordered pair under interleaving.  Also when two
\* requests of the same actor toward the same target (invite, save_profile
\* or skip_profile) both read that no row exists before either commits,
\* every state has at most one Match row for the pair.
C20_OneRowPerPairInterleaved ==
    \A a \in Members, b \in Members : Cardinality(RowsOf(a, b)) <= 1

DoubleInviteRead ==
    \E w1 \in Workers, w2 \in Workers, a \in Members, b \in Members :
        /\ a # b
        /\ inflight[w1] = Request("invite", a, b, None, None, "read")
        /\ inflight[w2] = Request("invite", b, a, None, None, "read")

\* C21: concurrent double invite.  When invite(a,b) and invite(b,a) have
\* both read that the other's row does not exist, the requests run to their
\* end and the tables reach, with no further request, a state in which
\* rows (a,b) and (b,a) are both connected with intro_accepted_at set.
C21_DoubleInviteConverges == DoubleInviteRead ~> BothConnected(1, 2)

Reading == Cardinality({w \in Workers : inflight[w].pc = "read"})

AloneWithinQuota ==
    (AllIdle /\ AllIdle' /\ InWindow(1) <= WeeklyQuota) =>
        \A b \in NextTarget :
            send_invite_to_profile(1, b) => InWindow(1)' <= WeeklyQuota

\* C22: the weekly quota counts and then inserts, without a lock.  With k
\* workers handling the invites of one actor to distinct targets, the
\* actor's rows with intro_requested_at within the last 7 days, together
\* with the requests that have counted and not yet committed, never exceed
\* 20 by more than k - 1; and an invite handled while no other request is
\* in flight never takes the number of these rows above 20.
C22_QuotaRace ==
    /\ [](InWindow(1) + Reading <= WeeklyQuota + MaxWorkers - 1)
    /\ [][AloneWithinQuota]_vars

C22_Witness ==
    /\ InWindow(1) = WeeklyQuota + MaxWorkers - 1
    /\ AllIdle

MarkedAllRead(a, m) ==
    [k \in DOMAIN messages |->
        IF /\ messages[k].match_id = m
           /\ messages[k].recipient_id = a
           /\ ~messages[k].is_read
        THEN [messages[k] EXCEPT !.is_read = TRUE, !.read_at = At(now)]
        ELSE messages[k]]

\* C23: mark_all_read has the authorization of get_messages.  On an
\* existing match it fails with Forbidden for a caller who is not a
\* participant and with InvalidState for a participant when the match is
\* not connected, changing no Message in either case; otherwise it
\* succeeds and sets is_read and one shared read_at on exactly the unread
\* Messages of the match addressed to the caller.
C23_MarkAllReadGate ==
    [][response'.op = "mark_all_read" =>
       \A a \in Members, m \in DOMAIN matches :
          mark_all_messages_read(a, m)
             => IF a \notin Participants(m)
                THEN response'.outcome = "Forbidden" /\ TablesUnchanged
                ELSE IF matches[m].status # "connected"
                THEN response'.outcome = "InvalidState" /\ TablesUnchanged
                ELSE /\ response'.outcome = "ok"
                     /\ matches' = matches
                     /\ messages' = MarkedAllRead(a, m)]_vars

Barred == users.is_banned \cup users.is_inactive

Rejected == response'.outcome = "Forbidden" /\ TablesUnchanged

BarredStep ==
    \A a \in Barred :
        /\ response'.op = "invite" =>
              \A b \in Profiles : send_invite_to_profile(a, b) => Rejected
        /\ response'.op = "save_profile" =>
              \A b \in Profiles : save_profile(a, b) => Rejected
        /\ response'.op = "skip_profile" =>
              \A b \in Profiles : skip_profile(a, b) => Rejected
        /\ response'.op = "request_introduction" =>
              \A m \in MatchIds : request_introduction(a, m) => Rejected
        /\ response'.op = "respond_to_introduction" =>
              \A m \in MatchIds, accept \in BOOLEAN, with_message \in BOOLEAN :
                 respond_to_introduction(a, m, accept, with_message) => Rejected
        /\ response'.op = "update_status" =>
              \A m \in MatchIds, st \in allowed_statuses :
                 update_match_status(a, m, st) => Rejected
        /\ response'.op = "send_message" =>
              \A m \in MatchIds : send_message(a, m) => Rejected
        /\ response'.op = "mark_read" =>
              \A k \in MessageIds : mark_message_read(a, k) => Rejected
        /\ response'.op = "mark_all_read" =>
              \A m \in MatchIds : mark_all_messages_read(a, m) => Rejected

\* C24: every call of a handler by a user whose record is banned or
\* inactive is answered with 403 by the identity dependency and changes no
\* Match and no Message, whatever the handler and whatever rows and
\* messages the caller is a party to.
C24_BarredCaller == [][BarredStep]_vars

C24_Witness ==
    /\ response.op = "respond_to_introduction"
    /\ response.outcome = "Forbidden"
    /\ 2 \in users.is_banned
    /\ 2 \notin users.is_inactive
    /\ \E i \in RowsOf(1, 2) :
          /\ IsSet(matches[i].intro_requested_at)
          /\ ~IsSet(matches[i].intro_accepted_at)

Going(e) == Cardinality({k \in DOMAIN rsvps : k[2] = e /\ rsvps[k] = "going"})

\* C25: event capacity.  For an event with max_attendees = N, after any
\* sequence or interleaving of rsvp_to_event requests the number of RSVPs
\* with status going is at most N and current_attendees equals that
\* number.
C25_Capacity ==
    \A e \in DOMAIN events :
        /\ Going(e) <= events[e].max_attendees
        /\ events[e].current_attendees = Going(e)

\* C26: respond_to_introduction follows the transition diagram.  It
\* changes the status of a Match only when the status is intro_requested;
\* on a match with any other status (dismissed after a decline, viewed
\* after update_status) it does not succeed and changes no Match.
C26_RespondFromRequested ==
    [][response'.op = "respond_to_introduction" =>
       \A a \in Actors, m \in DOMAIN matches, accept \in BOOLEAN, with_message \in BOOLEAN :
          (/\ matches[m].status # "intro_requested"
           /\ respond_to_introduction(a, m, accept, with_message))
             => response'.outcome # "ok" /\ matches' = matches]_vars

\* C27: mirror consistency.  In every state reached by handlers run one
\* after the other, if row (a,b) is connected and a row (b,a) exists with
\* intro_requested_at set, then row (b,a) is connected too and has
\* intro_accepted_at set.
C27_MirrorConsistency ==
    \A i, j \in DOMAIN matches :
        (/\ matches[i].user_id = matches[j].target_user_id
         /\ matches[i].target_user_id = matches[j].user_id
         /\ matches[i].status = "connected"
         /\ IsSet(matches[j].intro_requested_at))
            => /\ matches[j].status = "connected"
               /\ IsSet(matches[j].intro_accepted_at)

TimestampsAgree ==
    \A i \in DOMAIN matches :
        /\ IsSet(matches[i].intro_accepted_at) => IsSet(matches[i].intro_requested_at)
        /\ matches[i].status = "connected" => IsSet(matches[i].intro_accepted_at)
        /\ matches[i].status = "intro_requested" =>
              /\ IsSet(matches[i].intro_requested_at)
              /\ ~IsSet(matches[i].intro_accepted_at)

InviteOnConnected ==
    response'.op = "invite" =>
       /\ response'.outcome # "AlreadyConnected"
       /\ \A a \in Members, b \in Members :
             (/\ \E i \in RowsOf(a, b) : matches[i].status = "connected"
              /\ send_invite_to_profile(a, b))
                => response'.outcome = "AlreadyRequested" /\ TablesUnchanged

C29_UnreadAgreement ==
    \A a \in Members :
        (\A i \in connected_matches(a) : Resolves(other_user_id(a, i))) =>
            \A conversations \in get_conversations(a) :
                /\ total(a, conversations) = get_unread_count(a)
                /\ \A i, j \in conversations :
                      other_user_id(a, i) = other_user_id(a, j) => i = j

MirrorUnchanged(a, b) ==
    /\ RowsOf(a, b)' = RowsOf(a, b)
    /\ RowsOf(b, a)' = RowsOf(b, a)
    /\ \A i \in RowsOf(a, b) \cup RowsOf(b, a) : matches'[i] = matches[i]
    /\ messages' = messages

QuotaOrderStep ==
    response'.op = "invite" =>
       \A b \in Members :
          (b # 1 /\ send_invite_to_profile(1, b)) =>
             IF HasRequested(1, b)
             THEN response'.outcome = "AlreadyRequested" /\ TablesUnchanged
             ELSE IF InWindow(1) >= WeeklyQuota
             THEN response'.outcome = "RateLimited" /\ MirrorUnchanged(1, b)
             ELSE HasRequested(b, 1) =>
                     /\ response'.outcome = "ok"
                     /\ response'.auto_connected
                     /\ BothConnected(1, b)'
                     /\ InWindow(1)' = InWindow(1) + 1

\* C30: the weekly quota gates the reciprocal auto-connection and is
\* checked after the already-requested check.  An invite by an actor with
\* 20 counted rows to a target not yet invited is RateLimited, also when
\* the target's mirror row has intro_requested_at set, and leaves both rows
\* and the Messages unchanged; an invite to a target already invited is
\* AlreadyRequested, also with 20 counted rows; and a successful
\* auto-connect adds one to the actor's counted rows.
C30_QuotaGatesAutoConnect == [][QuotaOrderStep]_vars

C30_Witness ==
    /\ response.op = "invite"
    /\ response.outcome = "RateLimited"
    /\ InWindow(1) = WeeklyQuota
    /\ CrowdInvited = Cardinality(Crowd)
    /\ HasRequested(2, 1)
    /\ ~HasRequested(1, 2)
====
